---- MODULE Spec2Model ----
(***************************************************************************)
(* A model of the analytical core of cryptoLoader:                         *)
(*   src/indicators/indicators.py  (numeric kernels: EWMA, momentum,       *)
(*                                  z-scores, rolling std, forward         *)
(*                                  returns, rolling decile ranker)        *)
(*   src/helpers/plots.py          (signal-bucket aggregator and its       *)
(*                                  decile variant)                        *)
(*                                                                         *)
(* Numbers.  A float is modelled as a rational <<num, den>> with den > 0   *)
(* in lowest terms; the missing marker (NaN) is <<0, 0>>.  Every           *)
(* arithmetic operator propagates NaN the way IEEE arithmetic does.  The   *)
(* specifications named ...Round round every operation of the EWMA and of  *)
(* the z-score kernels to a float of `mantissa` significant bits; in the   *)
(* other specifications the arithmetic is exact.                           *)
(* Arrays are sequences: position p of a sequence is index p-1 of the      *)
(* Python array.                                                           *)
(***************************************************************************)
EXTENDS Integers, Sequences, FiniteSets, TLC

VARIABLES
    fill_method,     \* the default fill_method of Series.pct_change of the pandas in use
    prices,          \* argument of _calc_fwd_returns / momentum
    maxperiod,       \* argument maxperiod of the last _calc_fwd_returns call
    fwd_returns,     \* matrix returned by _calc_fwd_returns (<<>> before the call)
    idx,             \* signaldf: the index labels (original positions, 0-based) of its rows
    c,               \* signaldf['c']
    sig,             \* signaldf[signal_col]
    fwdReturns,      \* signaldf['fwdReturns1'], signaldf['fwdReturns2'], ...
    normalized,      \* signaldf['<signal_col>_normalized'] (<<>> while absent)
    signal_rounding, \* argument signal_rounding of the call, when the last call on the
                     \* table was _bucketAndCalcSignalReturns (else 0)
    maxperiod_fwdreturns, \* its argument maxperiod_fwdreturns (else 0)
    signal_meanReturns, \* the table it returned (else NoTable)
    sig_decile,      \* signaldf['<signal_col>_decile']: <<>> while absent, else <<column>>
    decile_lookback, \* argument decile_lookback of the call, when the last call on the
                     \* table was plotgrid_decile_returns (else 0)
    fig,             \* the bars of the figure it returned (else <<>>)
    close,           \* signaldf['close']: <<>> while absent, else <<column>>
    fwdReturns_,     \* signaldf['fwdReturns_1'], signaldf['fwdReturns_2'], ...
    values,          \* argument of compute_deciles_with_rank / the EWMA
    window_size,     \* argument window_size of compute_deciles_with_rank
    rolling_deciles, \* first component returned by compute_deciles_with_rank
    decile_ranks,    \* second component returned by compute_deciles_with_rank
    length,          \* argument length of exponentially_weighted_moving_average
    alpha,           \* argument alpha of exponentially_weighted_moving_average
    result,          \* array returned by exponentially_weighted_moving_average
    raised,          \* the exception the last call ended in ("none": it returned)
    called,          \* the kernel called last, for the kernels whose arguments do not tell
                     \* ("none" before any call)
    rollingWindow,   \* argument rollingWindow of zscore / rolling_zscore (0 after another kernel)
    zscores,         \* array returned by zscore / rolling_zscore (<<>> after another kernel)
    window,          \* argument window of rolling_std (0 after another kernel)
    stds,            \* array returned by rolling_std (<<>> after another kernel)
    lookback,        \* argument lookback of momentum / momentum2
    momo,            \* array returned by momentum / momentum2
    mantissa,        \* significant bits of the floats (0: arithmetic is exact)
    collector,       \* the data collector whose rate limiter is exercised ("none": none)
    request_timestamps, \* self.request_timestamps, each timestamp kept as its age in
                     \* clock ticks (the clock's reading minus the timestamp)
    sleeping,        \* the time.sleep the rate-limit check is blocked in ("no": none)
    sleep_time,      \* the ticks that sleep still has to last
    admitted,        \* the ages of the admission times of all calls so far
    returned         \* the last step of the collector was the return of a check:
                     \* "at once", "after sleep" or "no"

vars == <<fill_method, prices, maxperiod, fwd_returns, idx, c, sig, fwdReturns,
          normalized, signal_rounding, maxperiod_fwdreturns, signal_meanReturns, sig_decile,
          decile_lookback, fig, close, fwdReturns_, values, window_size, rolling_deciles,
          decile_ranks, length, alpha, result, raised, called, rollingWindow, zscores,
          window, stds, lookback, momo, mantissa, collector, request_timestamps,
          sleeping, sleep_time, admitted, returned>>

fwdVars == <<prices, maxperiod, fwd_returns>>
dfVars == <<idx, c, sig, fwdReturns, normalized, signal_rounding, maxperiod_fwdreturns,
            signal_meanReturns, sig_decile, decile_lookback, fig, close, fwdReturns_>>
decileVars == <<window_size, rolling_deciles, decile_ranks>>
ewmaVars == <<length, alpha, result>>
zVars == <<rollingWindow, zscores, window, stds>>
momoVars == <<lookback, momo>>
kernelVars == <<values, decileVars, ewmaVars, zVars, momoVars, called, raised>>
tableVars == <<fill_method, fwdVars, dfVars>>
rateVars == <<collector, request_timestamps, sleeping, sleep_time, admitted, returned>>
analyticsVars == <<tableVars, kernelVars, mantissa>>

\* No collector has been constructed.
NoCollector ==
    /\ collector = "none"
    /\ request_timestamps = <<>>
    /\ sleeping = "no"
    /\ sleep_time = 0
    /\ admitted = <<>>
    /\ returned = "no"

(***************************************************************************)
(* Bounds of the model.                                                    *)
(***************************************************************************)
MaxLen == 3
MaxPrice == 2
MaxHorizon == 2
MaxN == 4
MaxVal == 3
\* Significant bits of the floats of the rounded specifications (a double has 53).
Precision == 3

(***************************************************************************)
(* Float arithmetic on exact rationals.                                    *)
(***************************************************************************)
NaN == <<0, 0>>

isnan(x) == x[2] = 0

Abs(n) == IF n < 0 THEN -n ELSE n

RECURSIVE GCD(_, _)
GCD(a, b) == IF b = 0 THEN a ELSE GCD(b, a % b)

Rat(n, d) ==
    IF d = 0 THEN NaN
    ELSE LET g == GCD(Abs(n), Abs(d))
             s == IF d < 0 THEN -1 ELSE 1
         IN  <<(s * n) \div g, (s * d) \div g>>

Num(n) == <<n, 1>>

RAdd(x, y) == IF isnan(x) \/ isnan(y) THEN NaN
              ELSE Rat(x[1] * y[2] + y[1] * x[2], x[2] * y[2])

RSub(x, y) == IF isnan(x) \/ isnan(y) THEN NaN
              ELSE Rat(x[1] * y[2] - y[1] * x[2], x[2] * y[2])

RMul(x, y) == IF isnan(x) \/ isnan(y) THEN NaN
              ELSE Rat(x[1] * y[1], x[2] * y[2])

\* 0/0 is NaN.  No nonzero number is divided by zero in the model (prices are
\* positive, weights sum to a positive number, a group has at least one member,
\* a zero standard deviation comes with zero deviations).
RDiv(x, y) == IF isnan(x) \/ isnan(y) THEN NaN
              ELSE Rat(x[1] * y[2], x[2] * y[1])

\* x <= y on floats: false as soon as one side is NaN.
RLeq(x, y) == ~isnan(x) /\ ~isnan(y) /\ x[1] * y[2] <= y[1] * x[2]

RLt(x, y) == ~isnan(x) /\ ~isnan(y) /\ x[1] * y[2] < y[1] * x[2]

PriceDom == {Num(p) : p \in 1..MaxPrice} \cup {NaN}

SeqsUpTo(S, lo, hi) == UNION {[1..k -> S] : k \in lo..hi}

(***************************************************************************)
(* indicators._calc_fwd_returns: the windowed-loop construction.           *)
(***************************************************************************)
\* range(1, n - period): the loop that skips index 0.
FwdLoopRangeFromOne(n, period) == 1..(n - period - 1)

\* range(n - period): the 0-based indices i the inner loop visits.
FwdLoopRange(n, period) == 0..(n - period - 1)

_calc_fwd_returns(px, maxp) ==
    LET n == Len(px)
    IN  [period \in 1..maxp |->
            [p \in 1..n |->
                IF (p - 1) \in FwdLoopRange(n, period)
                THEN RSub(RDiv(px[p + period], px[p]), Num(1))
                ELSE NaN]]

(***************************************************************************)
(* pandas: Series.pct_change(i).shift(-i), the shift-based construction of *)
(* plots._bucketAndCalcSignalReturns and plots.plotgrid_decile_returns.    *)
(***************************************************************************)
\* Series.ffill(): the last non-missing value at or before each position.
RECURSIVE ffill(_)
ffill(s) ==
    IF Len(s) = 0 THEN <<>>
    ELSE LET init == ffill(SubSeq(s, 1, Len(s) - 1))
             last == s[Len(s)]
         IN  Append(init, IF isnan(last) /\ Len(init) > 0 THEN init[Len(init)] ELSE last)

\* Series.shift(k): k > 0 moves values towards the end, k < 0 towards the
\* start; vacated positions are missing.
shift(s, k) ==
    [p \in 1..Len(s) |-> IF p - k \in 1..Len(s) THEN s[p - k] ELSE NaN]

\* Series.pct_change(i): data / data.shift(i) - 1 where data is the series
\* after the default fill (forward fill under fill_method = "pad").
pct_change(s, i, fm) ==
    LET data == IF fm = "pad" THEN ffill(s) ELSE s
        prev == shift(data, i)
    IN  [p \in 1..Len(s) |-> RSub(RDiv(data[p], prev[p]), Num(1))]

fwdReturnsColumn(col, i, fm) == shift(pct_change(col, i, fm), -i)

\* for i in range(1, maxperiod_fwdreturns+1): skip an existing column, else add it.
\* Every call adds the columns 1..maxperiod_fwdreturns, so the columns present
\* are always fwdReturns1 .. fwdReturns<Len(cols)>.
add_fwdreturn_columns(cols, col, maxp, fm) ==
    [i \in 1..(IF maxp > Len(cols) THEN maxp ELSE Len(cols)) |->
        IF i <= Len(cols) THEN cols[i] ELSE fwdReturnsColumn(col, i, fm)]

(***************************************************************************)
(* plots._bucketAndCalcSignalReturns: the signal-bucket aggregator.        *)
(***************************************************************************)
SigDom == {NaN, Rat(1, 20), Rat(1, 10), Rat(3, 20)}

RoundingDom == {0, 1}

RECURSIVE Pow10(_)
Pow10(r) == IF r = 0 THEN 1 ELSE 10 * Pow10(r - 1)

\* numpy rint: round to the nearest integer, halves to the even neighbour.
rint(x) ==
    LET fl == x[1] \div x[2]
        twice == 2 * (x[1] - fl * x[2])
    IN  IF twice < x[2] THEN fl
        ELSE IF twice > x[2] THEN fl + 1
        ELSE IF fl % 2 = 0 THEN fl ELSE fl + 1

\* Series.round(decimals): rint(x * 10^decimals) / 10^decimals.
round(x, decimals) ==
    IF isnan(x) THEN NaN
    ELSE Rat(rint(RMul(x, Num(Pow10(decimals)))), Pow10(decimals))

\* The positions of the rows that dropna(subset=[signal_col]) keeps, in order.
RECURSIVE notna_rows(_, _)
notna_rows(sigcol, n) ==
    IF n = 0 THEN <<>>
    ELSE IF isnan(sigcol[n]) THEN notna_rows(sigcol, n - 1)
    ELSE Append(notna_rows(sigcol, n - 1), n)

\* One column of the table restricted to the rows kept.
take(col, rows) == [j \in 1..Len(rows) |-> col[rows[j]]]

\* Sum and count of the non-missing members of one group in one pass over the
\* first p rows.
RECURSIVE group_sum_count(_, _, _, _)
group_sum_count(col, norm, key, p) ==
    IF p = 0 THEN <<Num(0), 0>>
    ELSE LET acc == group_sum_count(col, norm, key, p - 1)
         IN  IF norm[p] = key /\ ~isnan(col[p])
             THEN <<RAdd(acc[1], col[p]), acc[2] + 1>>
             ELSE acc

\* The mean that counts a missing forward return as zero.
group_mean_nan_as_zero(col, norm, key) ==
    LET members == {p \in 1..Len(col) : norm[p] = key}
        acc == group_sum_count(col, norm, key, Len(col))
    IN  RDiv(acc[1], Num(Cardinality(members)))

\* GroupBy.mean of one column for one key: the mean of the non-missing
\* members; missing when no member has a value.
group_mean(col, norm, key) ==
    LET acc == group_sum_count(col, norm, key, Len(col))
    IN  IF acc[2] = 0 THEN NaN ELSE RDiv(acc[1], Num(acc[2]))

\* The group keys in ascending order (groupby sorts its keys).
RECURSIVE sorted_keys(_)
sorted_keys(K) ==
    IF K = {} THEN <<>>
    ELSE LET least == CHOOSE x \in K : \A y \in K : RLeq(x, y)
         IN  <<least>> \o sorted_keys(K \ {least})

Reverse(s) == [p \in 1..Len(s) |-> s[Len(s) + 1 - p]]

\* sort_index(ascending=True).
sort_index_ascending(keys) == keys

\* sort_index(ascending=False) on the ascending keys of the groupby.
sort_index(keys) == Reverse(keys)

\* Every forward-return column the table has, whatever horizon was asked for.
fwd_returns_cols_all(cols, maxp) == [i \in 1..Len(cols) |-> i]

\* fwd_returns_cols: the labels i of the columns 'fwdReturns<i>' that are
\* selected, i in range(1, maxperiod_fwdreturns + 1).
fwd_returns_cols(cols, maxp) == [i \in 1..maxp |-> i]

\* groupby(normalized)[fwd_returns_cols].mean() followed by sort_index.
\* keys are the row labels of the result, columns its column labels.
groupby_mean(cols, norm, maxp) ==
    LET keys == sort_index(sorted_keys({norm[p] : p \in 1..Len(norm)}))
        sel == fwd_returns_cols(cols, maxp)
    IN  [keys |-> keys,
         columns |-> sel,
         means |-> [k \in 1..Len(keys) |->
                      [j \in 1..Len(sel) |-> group_mean(cols[sel[j]], norm, keys[k])]]]

NoTable == [keys |-> <<>>, columns |-> <<>>, means |-> <<>>]

\* The table after the call and the table returned, for a table given by its
\* index labels i0, its columns c0 and s0 and its forward-return columns cols.
_bucketAndCalcSignalReturns(i0, c0, s0, cols, rounding, maxp, fm) ==
    LET rows == notna_rows(s0, Len(s0))
        c1 == take(c0, rows)
        sig1 == take(s0, rows)
        cols0 == [i \in 1..Len(cols) |-> take(cols[i], rows)]
        cols1 == add_fwdreturn_columns(cols0, c1, maxp, fm)
        norm1 == [p \in 1..Len(sig1) |-> round(sig1[p], rounding)]
    IN  [rows |-> rows,
         idx |-> take(i0, rows),
         c |-> c1,
         sig |-> sig1,
         fwdReturns |-> cols1,
         normalized |-> norm1,
         signal_meanReturns |-> groupby_mean(cols1, norm1, maxp)]

\* The call on signaldf; dropna drops the rows of every column of the table.
bucketAndCalcSignalReturns(rounding, maxp) ==
    \E out \in {_bucketAndCalcSignalReturns(idx, c, sig, fwdReturns, rounding, maxp,
                                            fill_method)} :
        /\ idx' = out.idx
        /\ c' = out.c
        /\ sig' = out.sig
        /\ fwdReturns' = out.fwdReturns
        /\ normalized' = out.normalized
        /\ signal_meanReturns' = out.signal_meanReturns
        /\ sig_decile' = [j \in 1..Len(sig_decile) |-> take(sig_decile[j], out.rows)]
        /\ close' = [j \in 1..Len(close) |-> take(close[j], out.rows)]
        /\ fwdReturns_' = [j \in 1..Len(fwdReturns_) |-> take(fwdReturns_[j], out.rows)]
        /\ signal_rounding' = rounding
        /\ maxperiod_fwdreturns' = maxp
        /\ decile_lookback' = 0
        /\ fig' = <<>>

(***************************************************************************)
(* indicators.compute_deciles_with_rank and indicators.find_decile: the    *)
(* rolling decile ranker.                                                  *)
(***************************************************************************)
\* A window in ascending order (insertion sort; the window has no NaN).
RECURSIVE sorted(_)
sorted(a) ==
    IF Len(a) = 0 THEN <<>>
    ELSE LET init == sorted(SubSeq(a, 1, Len(a) - 1))
             x == a[Len(a)]
             k == Cardinality({j \in 1..Len(init) : RLeq(init[j], x)})
         IN  SubSeq(init, 1, k) \o <<x>> \o SubSeq(init, k + 1, Len(init))

\* The q-th percentile without interpolation (the lower neighbour).
percentile_lower(a, q) ==
    IF \E p \in 1..Len(a) : isnan(a[p]) THEN NaN
    ELSE sorted(a)[1 + (((Len(a) - 1) * q) \div 100)]

\* np.percentile(a, q) as the compiled kernel computes it: NaN when the window
\* holds a NaN; else, with rank = 1 + (n-1)*q/100, f = floor(rank) and
\* m = rank - f, the value lower*(1-m) + upper*m of the f-th and (f+1)-th
\* smallest elements (q < 100, so that f < n).
percentile(a, q) ==
    IF \E p \in 1..Len(a) : isnan(a[p]) THEN NaN
    ELSE IF Len(a) = 1 THEN a[1]
    ELSE LET s == sorted(a)
             rank == RAdd(Num(1), Rat((Len(a) - 1) * q, 100))
             f == rank[1] \div rank[2]
             m == RSub(rank, Num(f))
         IN  RAdd(RMul(s[f], RSub(Num(1), m)), RMul(s[f + 1], m))

\* The loop of find_decile from the i-th decile on (i 1-based): the 0-based
\* position of the first decile with value <= decile, 9 when there is none.
RECURSIVE find_decile_from(_, _, _)
find_decile_from(value, deciles, i) ==
    IF i > Len(deciles) THEN 9
    ELSE IF RLeq(value, deciles[i]) THEN i - 1
    ELSE find_decile_from(value, deciles, i + 1)

\* for i, decile in enumerate(deciles): if value <= decile: return i;  return 9
find_decile(value, deciles) == find_decile_from(value, deciles, 1)

\* windows[i] of sliding_window_view(values, window_size), i 0-based.
windows(vals, w, i) == SubSeq(vals, i + 1, i + w)

\* The two arrays compute_deciles_with_rank returns, for window_size <= len(values).
deciles_with_rank(vals, w) ==
    LET n == Len(vals)
        rows == [i \in 1..(n - w + 1) |->
                    [k \in 1..9 |-> percentile(windows(vals, w, i - 1), 10 * k)]]
    IN  [rolling_deciles |-> rows,
         decile_ranks |->
             [t \in 1..n |->
                 IF t <= w - 1 THEN NaN
                 ELSE Num(find_decile(vals[t], rows[t - w + 1]))]]

(***************************************************************************)
(* Rounded float arithmetic.  The kernels compute in binary floating       *)
(* point: every operation returns the float nearest to the exact result,   *)
(* ties to the even significand.  Fl rounds to `mantissa` significant bits *)
(* (exponent range unbounded); with mantissa = 0 the arithmetic is exact.  *)
(***************************************************************************)
RECURSIVE Pow2(_)
Pow2(k) == IF k = 0 THEN 1 ELSE 2 * Pow2(k - 1)

\* <<m, e>> with n/d rounded to m * 2^e, 2^(bits-1) <= m <= 2^bits, for n/d > 0.
RECURSIVE FlScale(_, _, _, _)
FlScale(n, d, e, bits) ==
    IF n >= Pow2(bits) * d THEN FlScale(n, 2 * d, e + 1, bits)
    ELSE IF n < Pow2(bits - 1) * d THEN FlScale(2 * n, d, e - 1, bits)
    ELSE <<rint(Rat(n, d)), e>>

Fl(x) ==
    IF mantissa = 0 \/ isnan(x) \/ x[1] = 0 THEN x
    ELSE LET me == FlScale(Abs(x[1]), x[2], 0, mantissa)
             s == IF x[1] < 0 THEN -1 ELSE 1
         IN  IF me[2] >= 0 THEN Rat(s * me[1] * Pow2(me[2]), 1)
             ELSE Rat(s * me[1], Pow2(-me[2]))

FAdd(x, y) == Fl(RAdd(x, y))

FSub(x, y) == Fl(RSub(x, y))

FMul(x, y) == Fl(RMul(x, y))

FDiv(x, y) == Fl(RDiv(x, y))

(***************************************************************************)
(* indicators.exponentially_weighted_moving_average.                       *)
(***************************************************************************)
AlphaDom == {Rat(1, 2), Rat(1, 3)}

RECURSIVE RPow(_, _)
RPow(x, k) == IF k = 0 THEN Num(1) ELSE RMul(x, RPow(x, k - 1))

\* alpha ** i: the float nearest to the power.
FPow(x, k) == Fl(RPow(x, k))

\* The weights without the reversal [::-1].
weights_not_reversed(len, a) ==
    [p \in 1..len |-> FMul(FSub(Num(1), a), FPow(a, p - 1))]

\* np.array([(1 - alpha) * (alpha ** i) for i in range(length)])[::-1]
weights(len, a) ==
    [p \in 1..len |-> FMul(FSub(Num(1), a), FPow(a, len - p))]

RECURSIVE dot_upto(_, _, _)
dot_upto(x, y, n) ==
    IF n = 0 THEN Num(0) ELSE FAdd(dot_upto(x, y, n - 1), FMul(x[n], y[n]))

\* np.dot of two arrays of one length; arr.sum().
dot(x, y) == dot_upto(x, y, Len(x))

\* The number of entries in place of their sum.
size(x) == Num(Len(x))

sum(x) == dot_upto(x, [p \in 1..Len(x) |-> Num(1)], Len(x))

\* values[i-length:i], i 0-based.
ewma_window(vals, len, i) == SubSeq(vals, i - len + 1, i)

exponentially_weighted_moving_average(vals, len, a) ==
    LET w == weights(len, a)
    IN  [p \in 1..Len(vals) |->
            IF p - 1 < len THEN NaN
            ELSE FDiv(dot(ewma_window(vals, len, p - 1), w), sum(w))]

(***************************************************************************)
(* indicators.rolling_zscore, zscore, rolling_std.  A standard deviation   *)
(* is the square root of a variance; the model carries a standard          *)
(* deviation as its square and a z-score d / std as its signed square      *)
(* d * |d| / std^2.  The square root is increasing and maps 0 to 0, so     *)
(* zero tests, signs, order and missing entries are those of the kernels.  *)
(***************************************************************************)
RECURSIVE add_upto(_, _)
add_upto(x, n) == IF n = 0 THEN Num(0) ELSE FAdd(add_upto(x, n - 1), x[n])

\* np.mean: the entries added up in order, divided by their number (0/0 = NaN
\* for no entries).
mean(x) == FDiv(add_upto(x, Len(x)), Num(Len(x)))

RECURSIVE ssd_upto(_, _, _)
ssd_upto(x, m, n) ==
    IF n = 0 THEN Num(0)
    ELSE FAdd(ssd_upto(x, m, n - 1), FMul(FSub(x[n], m), FSub(x[n], m)))

\* np.std, squared: the mean squared deviation from np.mean.
std(x) == FDiv(ssd_upto(x, mean(x), Len(x)), Num(Len(x)))

\* d / std, as its signed square, for std given as its square.
over_std(d, sd) == FDiv(FMul(d, <<Abs(d[1]), d[2]>>), sd)

\* values[i - rollingWindow + 1:i + 1], i 0-based.
zscore_window(vals, w, i) == SubSeq(vals, i - w + 2, i + 1)

\* (values[i] - mean) / std if std != 0 else 0
zscore_at(vals, w, i) ==
    LET win == zscore_window(vals, w, i)
    IN  IF std(win) # Num(0) THEN over_std(FSub(vals[i + 1], mean(win)), std(win))
        ELSE Num(0)

rolling_zscore(vals, w) ==
    [p \in 1..Len(vals) |-> IF p - 1 < w - 1 THEN NaN ELSE zscore_at(vals, w, p - 1)]

\* zscore(values, rollingWindow): rollingWindow 0 takes the whole array, and
\* divides without a test of the standard deviation.
zscore(vals, w) ==
    IF w = 0
    THEN [p \in 1..Len(vals) |-> over_std(FSub(vals[p], mean(vals)), std(vals))]
    ELSE rolling_zscore(vals, w)

\* arr[i - window + 1:i + 1], i 0-based: the window with the current entry.
std_window_with_current(arr, w, i) == SubSeq(arr, i - w + 2, i + 1)

\* arr[i - window + 1:i], i 0-based.
std_window(arr, w, i) == SubSeq(arr, i - w + 2, i)

rolling_std(arr, w) ==
    [p \in 1..Len(arr) |->
        IF p - 1 < w - 1 THEN NaN ELSE std(std_window(arr, w, p - 1))]

(***************************************************************************)
(* indicators.momentum, momentum2.                                         *)
(***************************************************************************)
\* (prices[i] / prices[i - lookback]) - 1, i 0-based.
momentum_at(px, lb, i) == FSub(FDiv(px[i + 1], px[i + 1 - lb]), Num(1))

momentum(px, lb) ==
    [p \in 1..Len(px) |-> IF p - 1 >= lb THEN momentum_at(px, lb, p - 1) ELSE NaN]

\* The first i, counted from `from`, whose price is not NaN; 0 when there is none.
RECURSIVE start_idx_from(_, _)
start_idx_from(px, i) ==
    IF i >= Len(px) THEN 0
    ELSE IF ~isnan(px[i + 1]) THEN i
    ELSE start_idx_from(px, i + 1)

start_idx(px) == start_idx_from(px, 0)

\* A loop that starts one index late.
momentum2_start_late(px, lb) == start_idx(px) + lb + 1

\* The first index of range(start_idx + lookback, n).
momentum2_start(px, lb) == start_idx(px) + lb

momentum2(px, lb) ==
    [p \in 1..Len(px) |->
        IF p - 1 >= momentum2_start(px, lb) THEN momentum_at(px, lb, p - 1) ELSE NaN]

(***************************************************************************)
(* plots.plotgrid_decile_returns: the decile variant of the aggregator.    *)
(***************************************************************************)
\* df.groupby(decile column)[fwdReturns<i>].mean(): the bars of panel i.  groupby
\* leaves out the rows whose key is missing and sorts the keys ascending.
ntile_grouped(cols, dec, i) ==
    LET keys == sorted_keys({dec[p] : p \in 1..Len(dec)} \ {NaN})
    IN  [keys |-> keys,
         means |-> [k \in 1..Len(keys) |-> group_mean(cols[i], dec, keys[k])]]

\* The call on signaldf.  The forward-return columns are added to the table as it is (no row is
\* dropped); the decile column is computed only when the table has none, and
\* compute_deciles_with_rank raises for a lookback longer than the table.
plotgrid_decile_returns(maxp, lookb) ==
    LET cols1 == add_fwdreturn_columns(fwdReturns, c, maxp, fill_method)
    IN  /\ fwdReturns' = cols1
        /\ decile_lookback' = lookb
        /\ IF sig_decile = <<>> /\ lookb > Len(sig)
           THEN /\ raised' = "ValueError"
                /\ sig_decile' = sig_decile
                /\ fig' = <<>>
           ELSE LET dec == IF sig_decile = <<>>
                          THEN deciles_with_rank(sig, lookb).decile_ranks
                          ELSE sig_decile[1]
                IN  /\ raised' = "none"
                    /\ sig_decile' = <<dec>>
                    /\ fig' = [i \in 1..maxp |-> ntile_grouped(cols1, dec, i)]
        /\ signal_rounding' = 0
        /\ maxperiod_fwdreturns' = 0
        /\ signal_meanReturns' = NoTable
        /\ UNCHANGED <<idx, c, sig, normalized, close, fwdReturns_>>

(***************************************************************************)
(* Operations.                                                             *)
(***************************************************************************)
\* fwd_returns = _calc_fwd_returns(prices, maxperiod)
Call_calc_fwd_returns ==
    /\ \E maxp \in 1..MaxHorizon :
          /\ fwd_returns' = _calc_fwd_returns(prices, maxp)
          /\ maxperiod' = maxp
    /\ UNCHANGED <<fill_method, prices, dfVars, kernelVars, mantissa, rateVars>>

\* _bucketAndCalcSignalReturns(signaldf, signal_col, signal_rounding, maxperiod_fwdreturns)
Call_bucketAndCalcSignalReturns ==
    /\ \E r \in RoundingDom, maxp \in 1..MaxHorizon :
          bucketAndCalcSignalReturns(r, maxp)
    /\ raised' = "none"
    /\ UNCHANGED <<fill_method, fwdVars, values, decileVars, ewmaVars, zVars, momoVars,
                   called, mantissa, rateVars>>

\* plotgrid_decile_returns(signaldf, signal_col, maxperiod_fwdreturns, decile_lookback)
Call_plotgrid_decile_returns ==
    /\ \E maxp \in 1..MaxHorizon, lookb \in 1..MaxLen :
          plotgrid_decile_returns(maxp, lookb)
    /\ UNCHANGED <<fill_method, fwdVars, values, decileVars, ewmaVars, zVars, momoVars,
                   called, mantissa, rateVars>>

\* rolling_deciles, decile_ranks = compute_deciles_with_rank(values, window_size)
\* sliding_window_view raises ValueError for a window longer than the array.
Call_compute_deciles_with_rank ==
    /\ \E w \in 1..MaxN :
          /\ window_size' = w
          /\ IF w > Len(values)
             THEN /\ raised' = "ValueError"
                  /\ rolling_deciles' = <<>>
                  /\ decile_ranks' = <<>>
             ELSE \E out \in {deciles_with_rank(values, w)} :
                     /\ raised' = "none"
                     /\ rolling_deciles' = out.rolling_deciles
                     /\ decile_ranks' = out.decile_ranks
    /\ UNCHANGED <<values, ewmaVars, zVars, momoVars, called, tableVars, mantissa, rateVars>>

\* result = exponentially_weighted_moving_average(values, length, alpha); the
\* argument alpha is a float.
Call_exponentially_weighted_moving_average ==
    /\ \E len \in 1..MaxN, a \in AlphaDom :
          /\ length' = len
          /\ alpha' = Fl(a)
          /\ result' = exponentially_weighted_moving_average(values, len, Fl(a))
    /\ raised' = "none"
    /\ UNCHANGED <<values, decileVars, zVars, momoVars, called, tableVars, mantissa, rateVars>>

\* No z-score or momentum kernel has been called.
NoKernelCalls ==
    /\ called = "none"
    /\ rollingWindow = 0
    /\ zscores = <<>>
    /\ window = 0
    /\ stds = <<>>
    /\ lookback = 0
    /\ momo = <<>>

\* zscores = rolling_zscore(values, rollingWindow)
Call_rolling_zscore ==
    /\ \E w \in 1..MaxN :
          /\ rollingWindow' = w
          /\ zscores' = rolling_zscore(values, w)
    /\ called' = "rolling_zscore"
    /\ raised' = "none"
    /\ window' = 0
    /\ stds' = <<>>
    /\ UNCHANGED <<values, decileVars, ewmaVars, momoVars, tableVars, mantissa, rateVars>>

\* zscores = zscore(values, rollingWindow)
Call_zscore ==
    /\ \E w \in 0..MaxN :
          /\ rollingWindow' = w
          /\ zscores' = zscore(values, w)
    /\ called' = "zscore"
    /\ raised' = "none"
    /\ window' = 0
    /\ stds' = <<>>
    /\ UNCHANGED <<values, decileVars, ewmaVars, momoVars, tableVars, mantissa, rateVars>>

\* stds = rolling_std(values, window).  With window 1 the kernel takes np.std of
\* an empty slice, a division 0.0 / 0: ZeroDivisionError under the error model
\* 'python' of the jit, NaN under 'numpy'.
Call_rolling_std ==
    /\ \E w \in 1..MaxN :
          /\ window' = w
          /\ \/ /\ raised' = "none"
                /\ stds' = rolling_std(values, w)
             \/ /\ w = 1
                /\ raised' = "ZeroDivisionError"
                /\ stds' = <<>>
    /\ called' = "rolling_std"
    /\ rollingWindow' = 0
    /\ zscores' = <<>>
    /\ UNCHANGED <<values, decileVars, ewmaVars, momoVars, tableVars, mantissa, rateVars>>

\* momo = momentum(prices, lookback)
Call_momentum ==
    /\ \E lb \in 0..MaxN :
          /\ lookback' = lb
          /\ momo' = momentum(prices, lb)
    /\ called' = "momentum"
    /\ raised' = "none"
    /\ UNCHANGED <<values, decileVars, ewmaVars, zVars, tableVars, mantissa, rateVars>>

\* momo = momentum2(prices, lookback)
Call_momentum2 ==
    /\ \E lb \in 0..MaxN :
          /\ lookback' = lb
          /\ momo' = momentum2(prices, lb)
    /\ called' = "momentum2"
    /\ raised' = "none"
    /\ UNCHANGED <<values, decileVars, ewmaVars, zVars, tableVars, mantissa, rateVars>>

\* _calc_fwd_returns and the EWMA take whatever configuration they are given:
\* neither tests maxperiod, length or alpha.  maxperiod 0 gives np.empty((0, n)),
\* a matrix without rows.
AlphaOutOfRangeDom == {Num(0), Rat(3, 2)}

Call_calc_fwd_returns_unvalidated ==
    /\ \E maxp \in 0..MaxHorizon :
          /\ fwd_returns' = _calc_fwd_returns(prices, maxp)
          /\ maxperiod' = maxp
    /\ called' = "_calc_fwd_returns"
    /\ raised' = "none"
    /\ UNCHANGED <<fill_method, prices, dfVars, values, decileVars, ewmaVars, zVars,
                   momoVars, mantissa, rateVars>>

Call_exponentially_weighted_moving_average_unvalidated ==
    /\ \E len \in 1..MaxN, a \in AlphaDom \cup AlphaOutOfRangeDom :
          /\ length' = len
          /\ alpha' = Fl(a)
          /\ result' = exponentially_weighted_moving_average(values, len, Fl(a))
    /\ called' = "exponentially_weighted_moving_average"
    /\ raised' = "none"
    /\ UNCHANGED <<values, decileVars, zVars, momoVars, tableVars, mantissa, rateVars>>

NoKernelInputs ==
    /\ values = <<>>
    /\ window_size = 0
    /\ rolling_deciles = <<>>
    /\ decile_ranks = <<>>
    /\ length = 0
    /\ alpha = NaN
    /\ result = <<>>
    /\ raised = "none"
    /\ NoKernelCalls
    /\ mantissa = 0
    /\ NoCollector

FreshTable(px, s) ==
    /\ prices = px
    /\ c = px
    /\ sig = s
    /\ idx = [p \in 1..Len(px) |-> p - 1]
    /\ fwdReturns = <<>>
    /\ normalized = <<>>
    /\ signal_rounding = 0
    /\ maxperiod_fwdreturns = 0
    /\ signal_meanReturns = NoTable
    /\ sig_decile = <<>>
    /\ close = <<>>
    /\ fwdReturns_ = <<>>
    /\ decile_lookback = 0
    /\ fig = <<>>
    /\ fwd_returns = <<>>
    /\ maxperiod = 0

(***************************************************************************)
(* SpecFwd: the two forward-return constructions on one price series; the  *)
(* table carries a signal column without missing entries.                  *)
(***************************************************************************)
InitFwd ==
    /\ fill_method \in {"pad", "none"}
    /\ \E px \in SeqsUpTo(PriceDom, 1, MaxLen) :
          FreshTable(px, [p \in 1..Len(px) |-> Rat(1, 10)])
    /\ NoKernelInputs

NextFwd ==
    \/ Call_calc_fwd_returns
    \/ Call_bucketAndCalcSignalReturns

SpecFwd == InitFwd /\ [][NextFwd]_vars

(***************************************************************************)
(* SpecAgg: the aggregator on tables whose signal may have missing entries.*)
(***************************************************************************)
\* The prices of SpecAgg have no missing entry, so that the fill of pct_change
\* has nothing to fill and fill_method makes no difference.
AggPriceDom == {Num(1), Num(2)}

InitAgg ==
    /\ fill_method = "pad"
    /\ \E n \in 1..MaxLen :
          \E px \in [1..n -> AggPriceDom], s \in [1..n -> SigDom] :
             FreshTable(px, s)
    /\ NoKernelInputs

NextAgg ==
    \/ Call_bucketAndCalcSignalReturns

SpecAgg == InitAgg /\ [][NextAgg]_vars

(***************************************************************************)
(* SpecTable: the aggregator and its decile variant on one table.          *)
(***************************************************************************)
TableSigDom == {NaN, Rat(1, 10), Rat(3, 20)}

\* One rising price series per length (no missing price, so that fill_method
\* makes no difference); the signal column varies.
InitTable ==
    /\ fill_method = "pad"
    /\ \E n \in 1..MaxLen :
          \E s \in [1..n -> TableSigDom] :
             FreshTable([p \in 1..n |-> Num(p)], s)
    /\ NoKernelInputs

NextTable ==
    \/ Call_bucketAndCalcSignalReturns
    \/ Call_plotgrid_decile_returns

SpecTable == InitTable /\ [][NextTable]_vars

(***************************************************************************)
(* Forward returns: properties.                                            *)
(***************************************************************************)
\* e is the float value of b/a - 1 (a, b prices): missing when a price is
\* missing, else the fraction with e * a = b - a.
IsSimpleReturn(e, a, b) ==
    IF isnan(a) \/ isnan(b) THEN isnan(e)
    ELSE /\ e[2] > 0
         /\ e[1] * a[1] * b[2] = (b[1] * a[2] - a[1] * b[2]) * e[2]

KernelDone == fwd_returns # <<>>

\* C1: _calc_fwd_returns returns maxperiod rows of n entries; entry (h, t) is
\* prices[t+h]/prices[t] - 1 when t + h < n and missing when t + h >= n.
C1_FwdReturnsMatrix ==
    KernelDone =>
        LET n == Len(prices)
        IN  /\ DOMAIN fwd_returns = 1..maxperiod
            /\ \A h \in 1..maxperiod :
                  /\ DOMAIN fwd_returns[h] = 1..n
                  /\ \A t \in 0..(n - 1) :
                        IF t + h < n
                        THEN IsSimpleReturn(fwd_returns[h][t + 1], prices[t + 1],
                                            prices[t + h + 1])
                        ELSE isnan(fwd_returns[h][t + 1])

\* C1 witness: prices [1, 2] with maxperiod 2: entry (1, 0) is 1, row 2 is
\* entirely missing.
C1_Witness ==
    /\ KernelDone
    /\ prices = <<Num(1), Num(2)>>
    /\ maxperiod = 2
    /\ fwd_returns[1][1] = Num(1)
    /\ \A t \in 1..2 : isnan(fwd_returns[2][t])

\* C2: on the same price series the windowed-loop construction and the
\* shift-based construction give the same entry for every horizon and index
\* (equal values when t + h < n, both missing when t + h >= n).
C2_ConstructionsAgree ==
    (KernelDone /\ maxperiod_fwdreturns > 0 /\ c = prices) =>
        \A h \in 1..maxperiod : \A t \in 1..Len(prices) :
            h <= Len(fwdReturns) => fwd_returns[h][t] = fwdReturns[h][t]

(***************************************************************************)
(* Aggregator: properties.                                                 *)
(***************************************************************************)
AggDone == maxperiod_fwdreturns > 0

RECURSIVE SumOver(_, _)
SumOver(col, S) ==
    IF S = {} THEN Num(0)
    ELSE LET p == CHOOSE q \in S : TRUE
         IN  RAdd(col[p], SumOver(col, S \ {p}))

\* m is the arithmetic mean of col over the rows S (S non-empty, no missing entry).
IsMeanOf(m, col, S) ==
    LET total == SumOver(col, S)
    IN  /\ m[2] > 0
        /\ m[1] * total[2] * Cardinality(S) = total[1] * m[2]

\* The retained rows whose rounded signal is k.
Bucket(k) == {p \in 1..Len(sig) : round(sig[p], signal_rounding) = k}

\* C3: for every bucket key k and horizon h the returned value is the mean of
\* the horizon-h forward returns of the retained rows whose rounded signal is k,
\* over the members with a forward return; it is missing when no member has one.
\* The keys are exactly the rounded signals of the retained rows.
C3_BucketMeans ==
    AggDone =>
        LET t == signal_meanReturns
        IN  /\ {t.keys[k] : k \in 1..Len(t.keys)} =
                   {round(sig[p], signal_rounding) : p \in 1..Len(sig)}
            /\ \A k \in 1..Len(t.keys) : \A j \in 1..Len(t.columns) :
                  LET col == fwdReturns[t.columns[j]]
                      have == {p \in Bucket(t.keys[k]) : ~isnan(col[p])}
                  IN  IF have = {} THEN isnan(t.means[k][j])
                      ELSE IsMeanOf(t.means[k][j], col, have)

\* C3 witness: a bucket with two members that have a forward return and one
\* member that has none; its mean is a number.
C3_Witness ==
    /\ AggDone
    /\ \E k \in 1..Len(signal_meanReturns.keys) :
          LET col == fwdReturns[1]
              B == Bucket(signal_meanReturns.keys[k])
          IN  /\ Cardinality({p \in B : ~isnan(col[p])}) = 2
              /\ \E p, q \in B : ~isnan(col[p]) /\ ~isnan(col[q]) /\ col[p] # col[q]
              /\ \E p \in B : isnan(col[p])
              /\ ~isnan(signal_meanReturns.means[k][1])

\* C4: the forward return averaged for a retained position t at horizon h is
\* price[t+h]/price[t] - 1 with t+h an index of the original price series
\* (stated for price series without missing prices).
C4_OriginalIndexReturns ==
    (AggDone /\ \A t \in 1..Len(prices) : ~isnan(prices[t])) =>
        \A r \in 1..Len(idx) : \A h \in 1..maxperiod_fwdreturns :
            IF idx[r] + h < Len(prices)
            THEN IsSimpleReturn(fwdReturns[h][r], prices[idx[r] + 1],
                                prices[idx[r] + h + 1])
            ELSE isnan(fwdReturns[h][r])

\* C5: the rows of the returned table are pairwise distinct keys in strictly
\* descending order; its columns are the horizons 1..maxperiod_fwdreturns in
\* ascending order, whatever columns the table carried before.
C5_TableOrder ==
    AggDone =>
        LET t == signal_meanReturns
        IN  /\ \A k \in 1..(Len(t.keys) - 1) : RLt(t.keys[k + 1], t.keys[k])
            /\ t.columns = [h \in 1..maxperiod_fwdreturns |-> h]
            /\ \A k \in 1..Len(t.keys) : DOMAIN t.means[k] = 1..maxperiod_fwdreturns

\* C5 witness: three keys, and a table that carries more forward-return
\* columns than the call asks for.
C5_Witness ==
    /\ AggDone
    /\ Len(signal_meanReturns.keys) = 3
    /\ Len(fwdReturns) > maxperiod_fwdreturns

(***************************************************************************)
(* SpecDecile: the rolling decile ranker on one series.                    *)
(* SpecEwma: the EWMA on one series.                                       *)
(***************************************************************************)
ValueDom == {Num(v) : v \in 1..MaxVal} \cup {NaN}

NoTableInputs ==
    /\ fill_method = "pad"
    /\ prices = <<>>
    /\ c = <<>>
    /\ sig = <<>>
    /\ idx = <<>>
    /\ fwdReturns = <<>>
    /\ normalized = <<>>
    /\ signal_rounding = 0
    /\ maxperiod_fwdreturns = 0
    /\ signal_meanReturns = NoTable
    /\ sig_decile = <<>>
    /\ close = <<>>
    /\ fwdReturns_ = <<>>
    /\ decile_lookback = 0
    /\ fig = <<>>
    /\ fwd_returns = <<>>
    /\ maxperiod = 0

InitKernel ==
    /\ values \in SeqsUpTo(ValueDom, 1, MaxN)
    /\ window_size = 0
    /\ rolling_deciles = <<>>
    /\ decile_ranks = <<>>
    /\ length = 0
    /\ alpha = NaN
    /\ result = <<>>
    /\ raised = "none"
    /\ NoKernelCalls
    /\ mantissa = 0
    /\ NoCollector
    /\ NoTableInputs

NextDecile ==
    \/ Call_compute_deciles_with_rank

SpecDecile == InitKernel /\ [][NextDecile]_vars

NextEwma ==
    \/ Call_exponentially_weighted_moving_average

SpecEwma == InitKernel /\ [][NextEwma]_vars

(***************************************************************************)
(* SpecZscore: the z-score kernels and rolling_std on one series.          *)
(***************************************************************************)
ScoreDom == {NaN, Num(1), Num(2)}

InitZscore ==
    /\ values \in SeqsUpTo(ScoreDom, 1, MaxN)
    /\ window_size = 0
    /\ rolling_deciles = <<>>
    /\ decile_ranks = <<>>
    /\ length = 0
    /\ alpha = NaN
    /\ result = <<>>
    /\ raised = "none"
    /\ NoKernelCalls
    /\ mantissa = 0
    /\ NoCollector
    /\ NoTableInputs

NextZscore ==
    \/ Call_rolling_zscore
    \/ Call_zscore
    \/ Call_rolling_std

SpecZscore == InitZscore /\ [][NextZscore]_vars

(***************************************************************************)
(* SpecMomentum: the two momentum kernels on one price series.             *)
(***************************************************************************)
InitMomentum ==
    /\ fill_method = "pad"
    /\ \E px \in SeqsUpTo(PriceDom, 1, MaxN) :
          /\ prices = px
          /\ c = <<>>
          /\ sig = <<>>
          /\ idx = <<>>
          /\ fwdReturns = <<>>
          /\ normalized = <<>>
          /\ signal_rounding = 0
          /\ maxperiod_fwdreturns = 0
          /\ signal_meanReturns = NoTable
          /\ sig_decile = <<>>
          /\ close = <<>>
          /\ fwdReturns_ = <<>>
          /\ decile_lookback = 0
          /\ fig = <<>>
          /\ fwd_returns = <<>>
          /\ maxperiod = 0
    /\ NoKernelInputs

NextMomentum ==
    \/ Call_momentum
    \/ Call_momentum2

SpecMomentum == InitMomentum /\ [][NextMomentum]_vars

(***************************************************************************)
(* SpecConfig: the kernels under configurations in and out of range, on    *)
(* one series.                                                             *)
(***************************************************************************)
InitConfig ==
    /\ fill_method = "pad"
    /\ \E px \in SeqsUpTo(PriceDom, 1, MaxLen) :
          /\ prices = px
          /\ values = px
    /\ c = <<>>
    /\ sig = <<>>
    /\ idx = <<>>
    /\ fwdReturns = <<>>
    /\ normalized = <<>>
    /\ signal_rounding = 0
    /\ maxperiod_fwdreturns = 0
    /\ signal_meanReturns = NoTable
    /\ sig_decile = <<>>
    /\ close = <<>>
    /\ fwdReturns_ = <<>>
    /\ decile_lookback = 0
    /\ fig = <<>>
    /\ fwd_returns = <<>>
    /\ maxperiod = 0
    /\ window_size = 0
    /\ rolling_deciles = <<>>
    /\ decile_ranks = <<>>
    /\ length = 0
    /\ alpha = NaN
    /\ result = <<>>
    /\ raised = "none"
    /\ NoKernelCalls
    /\ mantissa = 0
    /\ NoCollector

NextConfig ==
    \/ Call_calc_fwd_returns_unvalidated
    \/ Call_exponentially_weighted_moving_average_unvalidated
    \/ Call_rolling_std

SpecConfig == InitConfig /\ [][NextConfig]_vars

(***************************************************************************)
(* SpecEwmaRound: the EWMA on one series of floats, in rounded arithmetic. *)
(***************************************************************************)
\* The entries of the series of the rounded specifications: floats of every
\* precision from 2 bits on.
FloatDom == {Num(1), Num(3)}

InitRound ==
    /\ mantissa = Precision
    /\ NoCollector
    /\ values \in SeqsUpTo(FloatDom, 1, MaxN)
    /\ window_size = 0
    /\ rolling_deciles = <<>>
    /\ decile_ranks = <<>>
    /\ length = 0
    /\ alpha = NaN
    /\ result = <<>>
    /\ raised = "none"
    /\ NoKernelCalls
    /\ NoTableInputs

SpecEwmaRound == InitRound /\ [][NextEwma]_vars

\* SpecZscoreRound: the z-score kernels on one series of floats, in rounded
\* arithmetic.
SpecZscoreRound == InitRound /\ [][NextZscore]_vars

(***************************************************************************)
(* Rolling decile ranker: properties.                                      *)
(***************************************************************************)
DecileDone == window_size > 0 /\ raised = "none"

\* The breakpoints of the window that ends at the 0-based index t.
BreakpointsAt(t) == rolling_deciles[t - window_size + 2]

\* The window values[t-W+1 .. t] that ends at the 0-based index t.
OwnWindow(t) == [j \in 1..window_size |-> values[t - window_size + 1 + j]]

IsRank(r) == r[2] = 1 /\ r[1] \in 0..9

\* C6: rank(t) is in 0..9 for every t >= W-1, and rank(t) = 9 exactly when
\* value(t) is strictly greater than the 90th percentile of its own window.
C6_RankNineIffAboveP90 ==
    DecileDone =>
        \A t \in (window_size - 1)..(Len(values) - 1) :
            /\ IsRank(decile_ranks[t + 1])
            /\ decile_ranks[t + 1] = Num(9) <=> RLt(BreakpointsAt(t)[9], values[t + 1])

\* C7: rank(t) is the smallest j in 0..8 with value(t) <= breakpoint[j]; it is
\* 9 only when value(t) exceeds all nine breakpoints; rank(t) is missing for
\* every t < W-1.
C7_RankIsFirstBreakpoint ==
    DecileDone =>
        /\ \A t \in 0..(window_size - 2) : isnan(decile_ranks[t + 1])
        /\ \A t \in (window_size - 1)..(Len(values) - 1) :
              LET bp == BreakpointsAt(t)
                  r == decile_ranks[t + 1]
                  at_most == {j \in 0..8 : RLeq(values[t + 1], bp[j + 1])}
              IN  /\ IsRank(r)
                  /\ \A j \in at_most : r[1] <= j
                  /\ r[1] < 9 => r[1] \in at_most
                  /\ r[1] = 9 => \A j \in 0..8 : RLt(bp[j + 1], values[t + 1])

\* x is the j-th smallest (j 0-based) element of the window w.
IsOrderStatistic(x, w, j) ==
    /\ \E p \in 1..Len(w) : w[p] = x
    /\ Cardinality({p \in 1..Len(w) : RLt(w[p], x)}) <= j
    /\ Cardinality({p \in 1..Len(w) : RLeq(w[p], x)}) > j

\* b is the q-th percentile of w by linear interpolation: with the virtual
\* index v = (W-1)*q/100 between the order statistics lo (at floor(v)) and
\* hi (at ceil(v)), 100*b = 100*lo + ((W-1)*q mod 100)*(hi - lo).
IsLinearPercentile(b, w, q) ==
    LET vq == (Len(w) - 1) * q
        fl == vq \div 100
        ce == IF vq % 100 = 0 THEN fl ELSE fl + 1
    IN  \E plo, phi \in 1..Len(w) :
           /\ IsOrderStatistic(w[plo], w, fl)
           /\ IsOrderStatistic(w[phi], w, ce)
           /\ b[2] > 0
           /\ 100 * b[1] * w[plo][2] * w[phi][2] =
                 b[2] * (100 * w[plo][1] * w[phi][2]
                         + (vq % 100) * (w[phi][1] * w[plo][2] - w[plo][1] * w[phi][2]))

\* C8: there is one breakpoint row per full window, n-W+1 rows, row i for
\* the time index t = i+W-1; the row holds the 10th..90th percentiles by linear
\* interpolation of values[i .. i+W-1], the current value included, in
\* non-decreasing order.  (The percentiles of a window with a missing entry
\* are missing.)
C8_BreakpointRows ==
    DecileDone =>
        /\ DOMAIN rolling_deciles = 1..(Len(values) - window_size + 1)
        /\ \A t \in (window_size - 1)..(Len(values) - 1) :
              LET bp == BreakpointsAt(t)
                  w == OwnWindow(t)
              IN  /\ DOMAIN bp = 1..9
                  /\ IF \E p \in 1..Len(w) : isnan(w[p])
                     THEN \A k \in 1..9 : isnan(bp[k])
                     ELSE /\ \A k \in 1..9 : IsLinearPercentile(bp[k], w, 10 * k)
                          /\ \A k \in 1..8 : RLeq(bp[k], bp[k + 1])

\* C8 witness: a window of three distinct values that ends after the first
\* window, with interpolated (non-integer) breakpoints.
C8_Witness ==
    /\ DecileDone
    /\ window_size = 3
    /\ Len(values) = 4
    /\ \A p \in 1..4 : ~isnan(values[p])
    /\ Cardinality({values[p] : p \in 2..4}) = 3
    /\ values[4] # values[1]
    /\ rolling_deciles[2][1][2] > 1

\* C9: at every t >= W-1 where the signal value is missing, rank(t) is missing.
C9_MissingStaysMissing ==
    DecileDone =>
        \A t \in (window_size - 1)..(Len(values) - 1) :
            isnan(values[t + 1]) => isnan(decile_ranks[t + 1])

(***************************************************************************)
(* EWMA: properties.                                                       *)
(***************************************************************************)
EwmaDone == length > 0

RECURSIVE GeometricSum(_, _)
GeometricSum(a, n) == IF n = 0 THEN Num(0) ELSE RAdd(RPow(a, n - 1), GeometricSum(a, n - 1))

\* sum over k = 0..n-1 of alpha^k * values[i-1-k] (i 0-based).
RECURSIVE DecayedSum(_, _, _)
DecayedSum(a, i, n) ==
    IF n = 0 THEN Num(0)
    ELSE RAdd(RMul(RPow(a, n - 1), values[i - n + 1]), DecayedSum(a, i, n - 1))

\* C10: the EWMA is missing at every index i < length; at every i >= length
\* it is the average of values[i-length .. i-1] with weights proportional to
\* alpha^k, k = 0 on values[i-1]; it does not depend on values[i].
C10_EwmaTrailingWindow ==
    EwmaDone =>
        /\ DOMAIN result = 1..Len(values)
        /\ \A i \in 0..(Len(values) - 1) :
              IF i < length THEN isnan(result[i + 1])
              ELSE /\ RMul(result[i + 1], GeometricSum(alpha, length)) =
                         DecayedSum(alpha, i, length)
                   /\ \A v \in ValueDom :
                         exponentially_weighted_moving_average(
                             [values EXCEPT ![i + 1] = v], length, alpha)[i + 1]
                         = result[i + 1]

\* C10 witness: length 2 on [1, 3, 2]: output[2] = (1*3 + (1/2)*1) / (3/2) = 7/3.
C10_Witness ==
    /\ EwmaDone
    /\ values = <<Num(1), Num(3), Num(2)>>
    /\ length = 2
    /\ alpha = Rat(1, 2)
    /\ result = <<NaN, NaN, Rat(7, 3)>>

(***************************************************************************)
(* The EWMA of a constant series.                                          *)
(***************************************************************************)
IsConstant(s, v) == \A p \in 1..Len(s) : s[p] = v

RoundoffUnit == IF mantissa = 0 THEN Num(0) ELSE Rat(1, Pow2(mantissa))

\* x is v up to n rounded operations, for positive v:
\* v (1 - n u) <= x and x (1 - n u) <= v, since (1-u)^n >= 1 - n u.
WithinRounding(x, v, n) ==
    LET slack == RSub(Num(1), RMul(Num(n), RoundoffUnit))
    IN  /\ ~isnan(x)
        /\ RLeq(RMul(v, slack), x)
        /\ RLeq(RMul(x, slack), v)

WindowPositions(w, i) == (i - w + 2)..(i + 1)

ConstantOn(s, S) == \A p \in S, q \in S : s[p] = s[q] /\ ~isnan(s[p])

\* C12: rolling_zscore is exactly 0 (never missing) at every index i >= W-1
\* whose window values[i-W+1..i] is constant.
C12_ConstantWindowScoresZero ==
    called = "rolling_zscore" =>
        \A p \in 1..Len(values) :
            (p >= rollingWindow /\ ConstantOn(values, WindowPositions(rollingWindow, p - 1)))
                => zscores[p] = Num(0)

\* C13: zscore with rollingWindow 0 is 0 at every index of a constant array.
C13_WholeArrayConstantScoresZero ==
    (called = "zscore" /\ rollingWindow = 0 /\ ConstantOn(values, 1..Len(values)))
        => \A p \in 1..Len(values) : zscores[p] = Num(0)

SquaresOf(s) == [p \in 1..Len(s) |-> RMul(s[p], s[p])]

\* k^2 times the variance of s over the positions S, k the number of positions:
\* k * (sum of squares) - (sum)^2.
ScaledVariance(s, S) ==
    RSub(RMul(Num(Cardinality(S)), SumOver(SquaresOf(s), S)),
         RMul(SumOver(s, S), SumOver(s, S)))

\* sd is the squared standard deviation of s over the positions S: missing when
\* S is empty or holds a missing entry.
IsStdOf(sd, s, S) ==
    IF S = {} \/ \E p \in S : isnan(s[p]) THEN isnan(sd)
    ELSE RMul(Num(Cardinality(S) * Cardinality(S)), sd) = ScaledVariance(s, S)

\* z is the signed square of (x - mean) / std for the mean and standard deviation
\* of s over the positions S, and 0 for a zero standard deviation.
IsScoreOf(z, x, s, S) ==
    LET d == RSub(RMul(Num(Cardinality(S)), x), SumOver(s, S))
    IN  IF \E p \in S : isnan(s[p]) THEN isnan(z)
        ELSE IF ScaledVariance(s, S) = Num(0) THEN z = Num(0)
        ELSE RMul(z, ScaledVariance(s, S)) = RMul(d, <<Abs(d[1]), d[2]>>)

ValidIndices == {p - 1 : p \in {q \in 1..Len(prices) : ~isnan(prices[q])}}

AllMissing(out) == Len(out) = Len(values) /\ \A p \in 1..Len(out) : isnan(out[p])

\* C16: on a series shorter than the window the decile ranker, the z-score
\* kernels and the EWMA each return an all-missing result, and none raises.
C16_ShortSeriesAllMissing ==
    /\ window_size > Len(values) => (raised = "none" /\ AllMissing(decile_ranks))
    /\ (called \in {"rolling_zscore", "zscore"} /\ rollingWindow > Len(values))
           => (raised = "none" /\ AllMissing(zscores))
    /\ length > Len(values) => (raised = "none" /\ AllMissing(result))

\* The configuration of the last call is out of range: maxperiod <= 0, length
\* or window <= 0, alpha outside (0,1), or a lookback longer than the series.
InvalidConfiguration ==
    \/ called = "_calc_fwd_returns" /\ maxperiod <= 0
    \/ /\ called = "exponentially_weighted_moving_average"
       /\ \/ length <= 0
          \/ ~(RLt(Num(0), alpha) /\ RLt(alpha, Num(1)))
          \/ length > Len(values)
    \/ called = "rolling_std" /\ (window <= 0 \/ window > Len(values))

\* C17: a call with an invalid configuration ends in a configuration-validation
\* error, never in a returned result.
C17_InvalidConfigurationRaises ==
    InvalidConfiguration => raised = "ConfigurationError"

(***************************************************************************)
(* The table across calls.                                                 *)
(***************************************************************************)
\* C18: every operation leaves the table it is given as it was: the same
\* rows, the same columns, the same values.
C18_InputTableUnchanged ==
    [][/\ idx' = idx
       /\ c' = c
       /\ sig' = sig
       /\ fwdReturns' = fwdReturns
       /\ normalized' = normalized
       /\ sig_decile' = sig_decile]_vars

\* The signal column of the table as first given: the rows dropped since are the
\* rows whose signal was missing.
OriginalSignal ==
    [p \in 1..Len(prices) |->
        IF \E r \in 1..Len(idx) : idx[r] = p - 1
        THEN sig[CHOOSE r \in 1..Len(idx) : idx[r] = p - 1]
        ELSE NaN]

\* The table the same call returns on a fresh copy of the table as first given.
FreshResult ==
    _bucketAndCalcSignalReturns([p \in 1..Len(prices) |-> p - 1], prices, OriginalSignal,
                                <<>>, signal_rounding, maxperiod_fwdreturns,
                                fill_method).signal_meanReturns

\* C19: a second call of the aggregator with the same table and arguments
\* returns the table the first call returned, and a call returns what it
\* returns on a fresh copy of the table as first given.
C19_AggregatorIdempotent ==
    /\ [](AggDone => signal_meanReturns = FreshResult)
    /\ [][(/\ AggDone
           /\ signal_rounding' = signal_rounding
           /\ maxperiod_fwdreturns' = maxperiod_fwdreturns)
              => signal_meanReturns' = signal_meanReturns]_vars

\* A table that lost a row to dropna and was aggregated a second time, for
\* fewer horizons than it has forward-return columns.
C19_Witness ==
    /\ AggDone
    /\ Len(c) < Len(prices)
    /\ Len(c) >= 2
    /\ Len(fwdReturns) > maxperiod_fwdreturns
    /\ \E k \in 1..Len(signal_meanReturns.keys) : ~isnan(signal_meanReturns.means[k][1])

\* C20: whatever calls were made on the table before, the aggregator returns
\* what it returns when called first on the table as first given.
C20_NoStateAcrossCalls ==
    AggDone => signal_meanReturns = FreshResult

(***************************************************************************)
(* The decile variant of the aggregator.                                   *)
(***************************************************************************)
\* The last call on the table was plotgrid_decile_returns, and it returned.
PlotDone == decile_lookback > 0 /\ raised = "none"

\* The rows with a signal whose rank is key and that have a horizon-i return.
RankMembers(key, i) ==
    {p \in 1..Len(sig) :
        ~isnan(sig[p]) /\ sig_decile[1][p] = key /\ ~isnan(fwdReturns[i][p])}

\* C21: in both variants no position with a missing signal contributes to a
\* bucket's mean and no bucket key is missing; in the decile variant no position
\* with a missing rank contributes either, and every key is a rank in 0..9.
C21_MissingSignalsExcluded ==
    /\ AggDone =>
          /\ \A p \in 1..Len(sig) : ~isnan(sig[p])
          /\ \A k \in 1..Len(signal_meanReturns.keys) : ~isnan(signal_meanReturns.keys[k])
    /\ PlotDone =>
          \A i \in 1..Len(fig) : \A k \in 1..Len(fig[i].keys) :
              /\ IsRank(fig[i].keys[k])
              /\ IF RankMembers(fig[i].keys[k], i) = {} THEN isnan(fig[i].means[k])
                 ELSE IsMeanOf(fig[i].means[k], fwdReturns[i], RankMembers(fig[i].keys[k], i))

(***************************************************************************)
(* The sliding-window rate limiters of the data collectors (interface/).   *)
(* The clock is read in whole ticks. A stored timestamp t is kept as its   *)
(* age, the clock's reading minus t, so "t < now - w" reads "age > w" and  *)
(* "t > now - w" reads "age < w"; an age stops growing at Horizon, beyond  *)
(* every comparison the code makes. The limits are scaled down: the code   *)
(* has 20 requests per 2 s (okx), 60 per 60 s (hyperliquid), 100 per 1 s   *)
(* and 2500 per 300 s (ox).                                                *)
(***************************************************************************)
Okx_max_requests == 2
Okx_rate_limit_window == 2
RATE_LIMIT_PER_MINUTE == 2
one_minute == 2
Ox_max_requests == 2
Ox_rate_limit_window == 1
Ox_requests_per_5min == 3
five_minutes == 4

Collectors == {"okx", "hyperliquid", "ox"}

max_requests(col) ==
    CASE col = "okx" -> Okx_max_requests
      [] col = "hyperliquid" -> RATE_LIMIT_PER_MINUTE
      [] col = "ox" -> Ox_max_requests

rate_limit_window(col) ==
    CASE col = "okx" -> Okx_rate_limit_window
      [] col = "hyperliquid" -> one_minute
      [] col = "ox" -> Ox_rate_limit_window

\* The age from which a timestamp is beyond every test of the collector and
\* every window that holds a later admission.
Horizon(col) == IF col = "ox" THEN five_minutes + 1 ELSE 2 * rate_limit_window(col) + 1

\* The extra the sleep adds to the time the oldest request needs to leave the
\* window: the half second of hyperliquid lasts to the next tick of the clock.
margin(col) == IF col = "hyperliquid" THEN 1 ELSE 0

\* [timestamp for timestamp in self.request_timestamps if timestamp > now - span]
recent(ts, span) == SelectSeq(ts, LAMBDA age : age < span)

\* The mutation: a request leaves the window one tick early.
expired_early(age, span) == age + 1 >= span

\* self.request_timestamps[0] < window_start, with window_start = now - span
expired(age, span) == age > span

\* max(0, sleep_time)
max0(d) == IF d > 0 THEN d ELSE 0

\* The mutation: the timestamp is put in front of the history.
appendleft(col, ts) == <<0>> \o ts

\* self.request_timestamps.append(now): a deque of okx drops its oldest entry
\* when it is full, a list grows.
append(col, ts) ==
    IF col = "okx" /\ Len(ts) >= Okx_max_requests THEN Append(Tail(ts), 0)
    ELSE Append(ts, 0)

\* The while loop and the append after it, run from a fresh reading of the
\* clock up to the next time.sleep or the return.
RECURSIVE while_loop(_, _)
while_loop(col, ts) ==
    IF Len(ts) >= max_requests(col)
    THEN IF expired(ts[1], rate_limit_window(col))
         THEN while_loop(col, Tail(ts))
         ELSE [request_timestamps |-> ts, sleeping |-> "window",
               sleep_time |-> max0(rate_limit_window(col) - ts[1] + margin(col))]
    ELSE [request_timestamps |-> append(col, ts), sleeping |-> "no", sleep_time |-> 0]

\* okxDataCollector._check_rate_limit up to its first time.sleep or its return.
_check_rate_limit(ts) == while_loop("okx", ts)

\* hyperliquidDataCollector.check_rate_limit up to its first time.sleep or its
\* return.
hyperliquid_check_rate_limit(ts) == while_loop("hyperliquid", recent(ts, one_minute))

\* OxDataCollector.check_rate_limit up to its first time.sleep or its return.
ox_check_rate_limit(ts) ==
    IF Len(recent(ts, five_minutes)) >= Ox_requests_per_5min
    THEN [request_timestamps |-> recent(ts, five_minutes), sleeping |-> "5min",
          sleep_time |-> max0(five_minutes - recent(ts, five_minutes)[1])]
    ELSE while_loop("ox", recent(ts, five_minutes))

check_rate_limit(col, ts) ==
    CASE col = "okx" -> _check_rate_limit(ts)
      [] col = "hyperliquid" -> hyperliquid_check_rate_limit(ts)
      [] col = "ox" -> ox_check_rate_limit(ts)

\* One tick of the clock: every age grows by one.
older(col, ts) == [k \in 1..Len(ts) |-> IF ts[k] < Horizon(col) THEN ts[k] + 1 ELSE ts[k]]

\* A call of the collector's rate-limit check, up to its return or its first sleep.
Call_check_rate_limit ==
    /\ collector \in Collectors
    /\ sleeping = "no"
    /\ \E out \in {check_rate_limit(collector, request_timestamps)} :
          /\ request_timestamps' = out.request_timestamps
          /\ sleeping' = out.sleeping
          /\ sleep_time' = out.sleep_time
          /\ returned' = IF out.sleeping = "no" THEN "at once" ELSE "no"
          /\ admitted' = IF out.sleeping = "no" THEN Append(admitted, 0) ELSE admitted
    /\ UNCHANGED <<collector, analyticsVars>>

\* time.sleep has lasted its time: the check reads the clock again and goes on,
\* after either sleep with the while loop, up to its return or its next sleep.
Wake_check_rate_limit ==
    /\ sleeping # "no"
    /\ sleep_time = 0
    /\ \E out \in {while_loop(collector, request_timestamps)} :
          /\ request_timestamps' = out.request_timestamps
          /\ sleeping' = out.sleeping
          /\ sleep_time' = out.sleep_time
          /\ returned' = IF out.sleeping = "no" THEN "after sleep" ELSE "no"
          /\ admitted' = IF out.sleeping = "no" THEN Append(admitted, 0) ELSE admitted
    /\ UNCHANGED <<collector, analyticsVars>>

\* The clock advances by one tick. Admissions older than the horizon leave the
\* record of admissions.
Tick ==
    /\ collector \in Collectors
    /\ request_timestamps' = older(collector, request_timestamps)
    /\ admitted' = recent(older(collector, admitted), Horizon(collector))
    /\ sleep_time' = max0(sleep_time - 1)
    /\ returned' = "no"
    /\ UNCHANGED <<collector, sleeping, analyticsVars>>

InitRate ==
    /\ NoTableInputs
    /\ NoKernelCalls
    /\ values = <<>>
    /\ window_size = 0
    /\ rolling_deciles = <<>>
    /\ decile_ranks = <<>>
    /\ length = 0
    /\ alpha = NaN
    /\ result = <<>>
    /\ raised = "none"
    /\ mantissa = 0
    /\ collector \in Collectors
    /\ request_timestamps = <<>>
    /\ sleeping = "no"
    /\ sleep_time = 0
    /\ admitted = <<>>
    /\ returned = "no"

NextRate ==
    \/ Call_check_rate_limit
    \/ Wake_check_rate_limit
    \/ Tick

SpecRate == InitRate /\ [][NextRate]_vars

\* The admissions whose age lies in the window of the given length that ends
\* "newest" ticks ago.
InWindow(newest, span) ==
    {k \in 1..Len(admitted) : admitted[k] >= newest /\ admitted[k] < newest + span}

\* C22: within any time window of the configured length (the ticks after t up to
\* t + window) the number of admitted calls never exceeds the collector's maximum.
C22_AtMostMaxPerWindow ==
    collector \in Collectors =>
        \A newest \in 0..Horizon(collector) :
            Cardinality(InWindow(newest, rate_limit_window(collector)))
                <= max_requests(collector)

\* A call was admitted after the oldest request had left the window, and the
\* window that ends now is full.
C22_Witness ==
    /\ collector \in Collectors
    /\ returned # "no"
    /\ Len(admitted) > max_requests(collector)
    /\ Cardinality(InWindow(0, rate_limit_window(collector))) = max_requests(collector)

\* C23: within any window of five minutes the number of calls OxDataCollector's
\* check admits never exceeds its five-minute maximum.
C23_AtMostMaxPerFiveMinutes ==
    collector = "ox" =>
        \A newest \in 0..Horizon("ox") :
            Cardinality(InWindow(newest, five_minutes)) <= Ox_requests_per_5min

\* C24: the ranks plotgrid_decile_returns groups by are those of
\* compute_deciles_with_rank over the current signal values with the
\* decile_lookback of the current call, whatever calls came before on the table.
C24_RanksRecomputedEachCall ==
    PlotDone =>
        /\ sig_decile # <<>>
        /\ sig_decile[1] = deciles_with_rank(sig, decile_lookback).decile_ranks

(***************************************************************************)
(* indicators.calc_fwd_returns on the table, and SpecAttach: the table     *)
(* carries its prices under both names, 'close' (read by calc_fwd_returns) *)
(* and 'c' (read by the aggregator).                                       *)
(***************************************************************************)
\* for period in range(1, maxperiod + 1): df[f'fwdReturns_{period}'] = ...
\* The columns of the periods asked for are written, the others stay.
attach_fwdReturns(cols, px, maxp) ==
    [i \in 1..(IF maxp > Len(cols) THEN maxp ELSE Len(cols)) |->
        IF i <= maxp THEN _calc_fwd_returns(px, maxp)[i] ELSE cols[i]]

\* df = calc_fwd_returns(df, maxperiod); df['close'] raises KeyError when the
\* table has no such column.
Call_calc_fwd_returns_df ==
    /\ \E maxp \in 1..MaxHorizon :
          IF close = <<>>
          THEN /\ raised' = "KeyError"
               /\ fwdReturns_' = fwdReturns_
          ELSE /\ raised' = "none"
               /\ fwdReturns_' = attach_fwdReturns(fwdReturns_, close[1], maxp)
    /\ signal_rounding' = 0
    /\ maxperiod_fwdreturns' = 0
    /\ signal_meanReturns' = NoTable
    /\ decile_lookback' = 0
    /\ fig' = <<>>
    /\ UNCHANGED <<fill_method, fwdVars, idx, c, sig, fwdReturns, normalized, sig_decile,
                   close, values, decileVars, ewmaVars, zVars, momoVars, called,
                   mantissa, rateVars>>

InitAttach ==
    /\ fill_method = "pad"
    /\ \E n \in 1..MaxLen :
          \E s \in [1..n -> TableSigDom] :
             /\ prices = [p \in 1..n |-> Num(p)]
             /\ c = prices
             /\ close = <<prices>>
             /\ sig = s
             /\ idx = [p \in 1..n |-> p - 1]
    /\ fwdReturns = <<>>
    /\ fwdReturns_ = <<>>
    /\ normalized = <<>>
    /\ sig_decile = <<>>
    /\ signal_rounding = 0
    /\ maxperiod_fwdreturns = 0
    /\ signal_meanReturns = NoTable
    /\ decile_lookback = 0
    /\ fig = <<>>
    /\ fwd_returns = <<>>
    /\ maxperiod = 0
    /\ NoKernelInputs

NextAttach ==
    \/ Call_calc_fwd_returns_df
    \/ Call_bucketAndCalcSignalReturns

SpecAttach == InitAttach /\ [][NextAttach]_vars

\* The rows of a column that the aggregator's dropna retains.
Retained(col) == take(col, notna_rows(sig, Len(sig)))

\* The horizon-h returns the table carries before the call, under the name the
\* aggregator writes (fwdReturns<h>) or the name calc_fwd_returns writes.
HasOwn(h) == h <= Len(fwdReturns)
HasAttached(h) == h > Len(fwdReturns) /\ h <= Len(fwdReturns_)

\* C25: for each horizon h of an aggregator call, a horizon-h column is added only
\* when the table has none; a column already present, also one attached by
\* calc_fwd_returns, keeps its values at every retained position and is the one
\* whose group means are returned.
C25_ComputeIfAbsent ==
    [][maxperiod_fwdreturns' > 0 =>
         \A h \in 1..maxperiod_fwdreturns' :
            /\ HasOwn(h) => fwdReturns'[h] = Retained(fwdReturns[h])
            /\ HasAttached(h) =>
                  /\ Len(fwdReturns') = Len(fwdReturns)
                  /\ fwdReturns_'[h] = Retained(fwdReturns_[h])
                  /\ \A k \in 1..Len(signal_meanReturns'.keys) :
                        signal_meanReturns'.means[k][h]
                           = group_mean(fwdReturns_'[h], normalized',
                                        signal_meanReturns'.keys[k])]_vars

(***************************************************************************)
(* momentum and momentum2 side by side.                                    *)
(***************************************************************************)
\* Two arrays are missing at the same indices and equal elsewhere.
SameArray(a, b) ==
    /\ Len(a) = Len(b)
    /\ \A p \in 1..Len(a) :
          IF isnan(a[p]) \/ isnan(b[p]) THEN isnan(a[p]) /\ isnan(b[p])
          ELSE RLeq(a[p], b[p]) /\ RLeq(b[p], a[p])

\* C26: for every price series, whatever prices are missing, and every
\* lookback >= 1, momentum and momentum2 return arrays that are missing at the
\* same indices and equal elsewhere.
C26_MomentumVariantsAgree ==
    /\ (called = "momentum2" /\ lookback >= 1) => SameArray(momo, momentum(prices, lookback))
    /\ (called = "momentum" /\ lookback >= 1) => SameArray(momo, momentum2(prices, lookback))

\* momentum2 on a series with missing leading prices: an index that momentum
\* computes (from a missing price) and momentum2 skips, and a later index with
\* a value.
C26_Witness ==
    /\ called = "momentum2"
    /\ lookback >= 1
    /\ start_idx(prices) >= 1
    /\ lookback < momentum2_start(prices, lookback)
    /\ momentum2_start(prices, lookback) < Len(prices)
    /\ ~isnan(momo[Len(prices)])

(***************************************************************************)
(* SpecRateLive: the rate limiters with a clock that keeps advancing and a *)
(* sleeping check that goes on once its sleep has lasted its time.         *)
(***************************************************************************)
SpecRateLive ==
    /\ InitRate
    /\ [][NextRate]_vars
    /\ WF_vars(Tick)
    /\ WF_vars(Wake_check_rate_limit)

\* The history is in non-decreasing time order: no entry is older than the one
\* before it.
InTimeOrder(ts) == \A i, j \in 1..Len(ts) : i < j => ts[i] >= ts[j]

\* C27: every call of a collector's rate-limit check eventually returns; on
\* return it has appended exactly one timestamp, the admission time, to what it
\* kept of the history; the history stays in non-decreasing time order and never
\* holds more than the configured maximum number of entries.
C27_CheckReturnsWithOneAppend ==
    /\ (sleeping # "no") ~> (returned # "no")
    /\ [][returned' # "no" =>
            /\ admitted' = Append(admitted, 0)
            /\ \E k \in 0..Len(request_timestamps) :
                  request_timestamps'
                     = Append(SubSeq(request_timestamps, k + 1, Len(request_timestamps)), 0)]_vars
    /\ [](collector \in Collectors =>
            /\ InTimeOrder(request_timestamps)
            /\ Len(request_timestamps) <= max_requests(collector))

\* A check that had to sleep has returned, and the history is full.
C27_Witness ==
    /\ returned = "after sleep"
    /\ Len(request_timestamps) = max_requests(collector)

(***************************************************************************)
(* Rolling decile ranker: constant windows and window minima.              *)
(***************************************************************************)
\* Every entry of the window compares equal to its first (a missing entry never does).
AllEqual(w) == \A p \in 1..Len(w) : RLeq(w[p], w[1]) /\ RLeq(w[1], w[p])

\* x is the minimum of the window.
IsMinimumOf(x, w) == \A p \in 1..Len(w) : RLeq(x, w[p])

\* C28: the current value of a trailing window whose values are all equal has
\* rank 0; with window_size = 1 the rank is 0 at every index; the minimum of any
\* window has rank 0.
C28_TiesAndMinimaRankZero ==
    DecileDone =>
        \A t \in (window_size - 1)..(Len(values) - 1) :
            /\ AllEqual(OwnWindow(t)) => decile_ranks[t + 1] = Num(0)
            /\ window_size = 1 => decile_ranks[t + 1] = Num(0)
            /\ IsMinimumOf(values[t + 1], OwnWindow(t)) => decile_ranks[t + 1] = Num(0)

=============================================================================
